---- MODULE Spec2Model ----
(***************************************************************************)
(* Tegra210 BPMP mailbox transport (drivers/firmware/tegra/mail_t210.c).   *)
(*                                                                         *)
(* The state is the arbitration-semaphore status word (2 token bits per    *)
(* channel), the shared channel areas, the driver's globals (arb_sema,     *)
(* channel_area[]), the doorbell, and the position of the one core thread  *)
(* that is inside bpmp_connect or bpmp_return_data.  The peer (BPMP) is    *)
(* concurrent hardware: it may write the set / clear sub-registers between *)
(* any two register accesses of the core.                                  *)
(*                                                                         *)
(* Spec and SpecCycle start before bpmp_connect; SpecWords starts from the *)
(* state a successful bpmp_connect leaves, on a wider choice of status     *)
(* words, with another CPU writing its own channels; SpecIrqs runs         *)
(* bpmp_init_irq, the inbound doorbells and the channel index functions.   *)
(***************************************************************************)
EXTENDS Integers, Sequences, FiniteSets, TLC

(***************************************************************************)
(* Bounds of the model.                                                    *)
(***************************************************************************)
\* number of mail_ops calls and peer register writes in one behaviour
MaxOps == 3
\* the same, in a behaviour that stays on one channel
CycleOps == 4
\* number of channels whose RESULT slot the peer left at zero
MaxZero == 1
\* number of doorbell interrupts in one behaviour
MaxIrq == 2
\* number of mail_ops calls and other register writes in a behaviour that
\* starts connected, on any status word
WordOps == 2

(***************************************************************************)
(* Program constants.                                                      *)
(***************************************************************************)
CPU0_OB_CH0 == 0
CPU0_OB_CH1 == 4
CPU3_OB_CH1 == 7
CPU0_IB_CH == 8
CPU_OB_DOORBELL == 4
TRIGGER_ID_SHIFT == 16
TRIGGER_CMD_GET == 4
NR_CPUS == 4
ENODEV == 19
EFAULT == 14
\* bpmp.h
NR_CHANNELS == 12
MSG_DATA_MIN_SZ == 120
DO_ACK == 1
RING_DOORBELL == 2

Channels == 0 .. (NR_CHANNELS - 1)

(***************************************************************************)
(* Word arithmetic.  The registers are 32-bit and the macros' values are   *)
(* C ints; every value the driver forms for 12 channels lies in bits       *)
(* 0..23, so no shift leaves the word.                                     *)
(***************************************************************************)
\* x << n
Shl(x, n) == x * (2 ^ n)

RECURSIVE BitAnd(_, _)
BitAnd(a, b) ==
    IF a = 0 \/ b = 0 THEN 0
    ELSE (a % 2) * (b % 2) + 2 * BitAnd(a \div 2, b \div 2)

RECURSIVE BitOr(_, _)
BitOr(a, b) ==
    IF a = 0 THEN b
    ELSE IF b = 0 THEN a
    ELSE (IF a % 2 = 1 \/ b % 2 = 1 THEN 1 ELSE 0) + 2 * BitOr(a \div 2, b \div 2)

RECURSIVE BitXor(_, _)
BitXor(a, b) ==
    IF a = 0 THEN b
    ELSE IF b = 0 THEN a
    ELSE ((a + b) % 2) + 2 * BitXor(a \div 2, b \div 2)

\* a & ~b
BitClear(a, b) == a - BitAnd(a, b)

(***************************************************************************)
(* Token macros.                                                           *)
(***************************************************************************)
\* a mask one bit too wide
CH_MASK_Wide(ch) == Shl(7, ch * 2)
CH_MASK(ch) == Shl(3, ch * 2)
SL_SIGL(ch) == Shl(0, ch * 2)
SL_QUED(ch) == Shl(1, ch * 2)
\* the shift not scaled by the two bits of a token
MA_FREE_Unscaled(ch) == Shl(2, ch)
MA_FREE(ch) == Shl(2, ch * 2)
MA_ACKD(ch) == Shl(3, ch * 2)

\* every CPU given CPU 0's inbound channel
PER_CPU_IB_CH_Fixed(i) == CPU0_IB_CH
PER_CPU_IB_CH(i) == CPU0_IB_CH + i

\* the range check excluding the first deferrable channel
bpmp_thread_ch_index_Open(ch) ==
    IF ch <= CPU0_OB_CH1 \/ ch > CPU3_OB_CH1 THEN 0 - 1 ELSE ch - CPU0_OB_CH1
\* bpmp_thread_ch_index, bpmp_thread_ch, and bpmp_ob_channel on a given CPU
bpmp_thread_ch_index(ch) ==
    IF ch < CPU0_OB_CH1 \/ ch > CPU3_OB_CH1 THEN 0 - 1 ELSE ch - CPU0_OB_CH1
bpmp_thread_ch(idx) == CPU0_OB_CH1 + idx
bpmp_ob_channel(smp_processor_id) == smp_processor_id + CPU0_OB_CH0

\* the channels the defines give to one CPU: CPUn_OB_CH0, CPUn_OB_CH1, CPUn_IB_CH
CpuChannels(n) == {bpmp_ob_channel(n), bpmp_thread_ch(n), PER_CPU_IB_CH(n)}

\* a set that adds the value to the word
WriteSet_Add(w, v) == w + v
\* writel(v, arb_sema + SET_OFFSET): sets the bits of v, leaves the others
WriteSet(w, v) == BitOr(w, v)
\* a clear that toggles the bits of v
WriteClr_Toggle(w, v) == BitXor(w, v)
\* writel(v, arb_sema + CLR_OFFSET): clears the bits of v, leaves the others
WriteClr(w, v) == BitClear(w, v)

\* bpmp_ch_sta as a function of the status word read
bpmp_ch_sta(w, ch) == BitAnd(w, CH_MASK(ch))
bpmp_master_free(w, ch) == bpmp_ch_sta(w, ch) = MA_FREE(ch)
bpmp_slave_signalled(w, ch) == bpmp_ch_sta(w, ch) = SL_SIGL(ch)
bpmp_master_acked(w, ch) == bpmp_ch_sta(w, ch) = MA_ACKD(ch)

\* the value bpmp_signal_slave writes to CLR
SignalSlaveClr_Low(ch) == SL_QUED(ch)
SignalSlaveClr(ch) == CH_MASK(ch)
\* the value bpmp_ack_master writes to SET
AckMasterSet_High(ch) == MA_FREE(ch)
AckMasterSet(ch) == MA_ACKD(ch)
\* the value bpmp_ack_master (DO_ACK clear) and bpmp_free_master write to CLR
AckMasterClr_Both(ch) == CH_MASK(ch)
AckMasterClr(ch) == BitXor(MA_ACKD(ch), MA_FREE(ch))
FreeMasterClr_Both(ch) == CH_MASK(ch)
FreeMasterClr(ch) == BitXor(MA_ACKD(ch), MA_FREE(ch))

\* bpmp_return_data's size check
TooBig_OffByOne(sz) == sz > MSG_DATA_MIN_SZ + 1
TooBig(sz) == sz > MSG_DATA_MIN_SZ

\* bpmp_connect's return value for each of its failures
ConnectErr_Same(kind) == 0 - ENODEV
ConnectErr(kind) ==
    CASE kind = "window" -> 0 - ENODEV
      [] kind = "liveness" -> 0 - ENODEV
      [] kind = "address" -> 0 - EFAULT

\* the 2-bit token of a channel, 0..3
Token(w, ch) == (w \div (2 ^ (ch * 2))) % 4


(***************************************************************************)
(* State.                                                                  *)
(***************************************************************************)
VARIABLES
    cpu,            \* the CPU the core thread runs on
    of_node,        \* device tree: which of the two register windows exist
    result,         \* RESULT slots of the atomics window, filled by the peer
    sta,            \* arb_sema status word
    mem,            \* shared memory: the channel area (struct mb_data) at the
                    \* address of each channel of the thread's CPU
    atomics,        \* bpmp_connect's local: window 0 mapped (FALSE = NULL)
    arb_sema,       \* global: window 1 mapped (FALSE = NULL)
    channel_hwaddr, \* bpmp_connect's local array
    channel_area,   \* global: ib = ob = mapped address, 0 = not mapped
    trig,           \* values written to TRIGGER_OFFSET, in order
    reads,          \* RESULT slots read, in order
    ret,            \* <<>> while bpmp_connect has not returned, else <<value>>
    doorbell,       \* doorbell ids rung by tegra_ring_doorbell, in order
    warned,         \* WARN_ON(1) has fired
    pc,             \* where the core thread is
    lim,            \* the behaviour's bounds: calls and peer writes, channels
    ops,            \* calls and peer writes so far
    touched,        \* channels operated on so far
    last,           \* the step just taken: operation, channel, token before it
    cyc,            \* progress of one issue -> signal -> acknowledge -> free cycle
    irq_pc,         \* where bpmp_init_irq is
    irq_ret,        \* <<>> while bpmp_init_irq has not returned, else <<value>>
    registered,     \* the doorbell driver's table: per doorbell, the handlers
                    \* registered with their context
    attempted,      \* doorbells bpmp_init_irq asked to register, in order
    handled,        \* calls of bpmp_handle_irq: the doorbell fired and the channel
    call,           \* the last call of one of the channel index functions
    only,           \* per channel, the token its own writes alone would give
    hist            \* the core's last two completed token transitions, each
                    \* with the status word it left, since the last other write

vars == <<cpu, of_node, result, sta, mem, atomics, arb_sema, channel_hwaddr,
          channel_area, trig, reads, ret, doorbell, warned, pc, lim, ops,
          touched, last, cyc, irq_pc, irq_ret, registered, attempted, handled,
          call, only, hist>>

irqVars == <<irq_pc, irq_ret, registered, attempted, handled, call>>
obsVars == <<only, hist>>

connectVars == <<atomics, arb_sema, channel_hwaddr, channel_area, trig, reads, ret>>
envVars == <<cpu, of_node, result, lim>>

\* physical address the peer allocated for a channel's 0x80-byte area
ChAddr(ch) == 4096 + ch * 128

\* RESULT tables: every slot holds the channel's address, except the slots
\* of a set Z of channels the peer did not allocate
ResultTable(Z) == [ch \in Channels |-> IF ch \in Z THEN 0 ELSE ChAddr(ch)]
ResultTables == {ResultTable(Z) : Z \in {Y \in SUBSET Channels : Cardinality(Y) <= MaxZero}}

\* status words the peer may have left before the handshake: not initialised,
\* every channel MA_FREE, and tokens 0,3,2,1 repeating
RECURSIVE WordOf(_, _)
WordOf(tok, n) == IF n = 0 THEN 0 ELSE WordOf(tok, n - 1) + Shl(tok[n - 1], (n - 1) * 2)
AllFree == WordOf([ch \in Channels |-> 2], NR_CHANNELS)
Mixed == WordOf([ch \in Channels |-> (4 - (ch % 4)) % 4], NR_CHANNELS)
StaInit == {0, AllFree, Mixed}

Flags == {0, DO_ACK, RING_DOORBELL, DO_ACK + RING_DOORBELL}
\* header flags the peer left in the channel areas: channel ch has (ch + r) % 4,
\* so that every channel has DO_ACK set in one table and clear in the other
FlagTables == {[ch \in Channels |-> (ch + r) % 4] : r \in 0 .. 1}

ZeroData == [i \in 1 .. MSG_DATA_MIN_SZ |-> 0]
\* a caller's buffer, one byte longer than the capacity
Payload == [i \in 1 .. (MSG_DATA_MIN_SZ + 1) |-> 165]
Codes == {0 - 22}
Sizes == {MSG_DATA_MIN_SZ, MSG_DATA_MIN_SZ + 1}

memcpy(dst, src, n) == [i \in DOMAIN dst |-> IF i <= n THEN src[i] ELSE dst[i]]

Pc(at, ch, flags, i) == [at |-> at, ch |-> ch, flags |-> flags, i |-> i]
Last(op, ch, pre) == [op |-> op, ch |-> ch, pre |-> pre]
NoCycle == [ch |-> 0, stage |-> 0]
\* the cycle observer switched off
Unobserved == [ch |-> 0, stage |-> 0 - 1]

Lim(n, m) == [ops |-> n, touched |-> m]

IrqPc(at, i) == [at |-> at, i |-> i]
Call(fn, arg, rv) == [fn |-> fn, arg |-> arg, rv |-> rv]

\* a 2-bit token after a write of the 2-bit value b to SET, to CLR
SetTok(t, b) ==
    2 * (IF t \div 2 = 1 \/ b \div 2 = 1 THEN 1 ELSE 0)
      + (IF t % 2 = 1 \/ b % 2 = 1 THEN 1 ELSE 0)
ClrTok(t, b) ==
    2 * (IF t \div 2 = 1 /\ b \div 2 = 0 THEN 1 ELSE 0)
      + (IF t % 2 = 1 /\ b % 2 = 0 THEN 1 ELSE 0)

\* the channel's token had only the channel's own writes been executed: a
\* write of v to SET / CLR made for channel ch acts on it with ch's slice of v
OnlySet(o, ch, v) == [o EXCEPT ![ch] = SetTok(@, Token(v, ch))]
OnlyClr(o, ch, v) == [o EXCEPT ![ch] = ClrTok(@, Token(v, ch))]

Done(op, ch, flags, w) == [op |-> op, ch |-> ch, flags |-> flags, sta |-> w]
\* the history switched off
NoHistory == <<Done("off", 0, 0, 0)>>
\* someone else wrote between the two writes of a bpmp_ack_master under way
Interrupted == <<Done("interrupted", 0, 0, 0)>>
\* a transition of the core completes, leaving the status word w; one that
\* was interrupted is not an application of the transition to a status word
HistDone(h, op, ch, flags, w) ==
    IF h = NoHistory THEN h
    ELSE IF h = Interrupted THEN <<>>
    ELSE IF h = <<>> THEN <<Done(op, ch, flags, w)>>
    ELSE <<h[Len(h)], Done(op, ch, flags, w)>>
\* a write by someone else
HistReset(h) ==
    IF h = NoHistory THEN h
    ELSE IF pc.at = "ack_clr" THEN Interrupted
    ELSE <<>>

Start ==
    /\ cpu \in 0 .. (NR_CPUS - 1)
    /\ of_node \in [win0 : BOOLEAN, win1 : BOOLEAN]
    /\ result \in ResultTables
    /\ sta \in StaInit
    /\ \E ft \in FlagTables :
          /\ mem = [a \in {ChAddr(ch) : ch \in CpuChannels(cpu)} |->
                      [code |-> 0,
                       flags |-> ft[CHOOSE ch \in Channels : ChAddr(ch) = a],
                       data |-> ZeroData]]
          \* a bring-up that fails is the same on every CPU and with every
          \* header: one of each is kept
          /\ \/ of_node.win0 /\ of_node.win1 /\ sta # 0 /\ result = ResultTable({})
             \/ cpu = 0 /\ ft = [ch \in Channels |-> ch % 4]
    /\ atomics = FALSE
    /\ arb_sema = FALSE
    /\ channel_hwaddr = [ch \in Channels |-> 0]
    /\ channel_area = [ch \in Channels |-> 0]
    /\ trig = <<>>
    /\ reads = <<>>
    /\ ret = <<>>
    /\ doorbell = <<>>
    /\ warned = FALSE
    /\ pc = Pc("start", 0, 0, 0)
    /\ ops = 0
    /\ touched = {}
    /\ last = Last("none", 0, 0)
    /\ irq_pc = IrqPc("register", 0)
    /\ irq_ret = <<>>
    /\ registered = [i \in 0 .. (NR_CPUS - 1) |-> <<>>]
    /\ attempted = <<>>
    /\ handled = <<>>
    /\ call = Call("none", 0, 0)
    /\ only = [ch \in Channels |-> Token(sta, ch)]

Init ==
    /\ Start
    /\ lim = Lim(MaxOps, Cardinality(CpuChannels(0)))
    /\ cyc = Unobserved
    /\ hist = NoHistory

\* a behaviour that works one channel for longer, its cycles observed
InitCycle == Start /\ lim = Lim(CycleOps, 1) /\ cyc = NoCycle /\ hist = NoHistory

(***************************************************************************)
(* bpmp_connect, one step per register access.                             *)
(***************************************************************************)
opsVars == <<sta, mem, doorbell, warned, ops, touched, cyc>>

\* atomics = of_iomap(of_node, 0); if (!atomics) return -ENODEV;
ConnectAtomics ==
    /\ pc.at = "start"
    /\ atomics' = of_node.win0
    /\ IF of_node.win0
         THEN /\ pc' = Pc("arb_sema", 0, 0, 0)
              /\ ret' = ret
         ELSE /\ pc' = Pc("failed", 0, 0, 0)
              /\ ret' = <<ConnectErr("window")>>
    /\ last' = Last("connect_atomics", 0, 0)
    /\ UNCHANGED <<envVars, irqVars, obsVars, opsVars, arb_sema, channel_hwaddr, channel_area, trig, reads>>

\* arb_sema = of_iomap(of_node, 1); if (!arb_sema) return -ENODEV;
ConnectArbSema ==
    /\ pc.at = "arb_sema"
    /\ arb_sema' = of_node.win1
    /\ IF of_node.win1
         THEN /\ pc' = Pc("handshake", 0, 0, 0)
              /\ ret' = ret
         ELSE /\ pc' = Pc("failed", 0, 0, 0)
              /\ ret' = <<ConnectErr("window")>>
    /\ last' = Last("connect_arb_sema", 0, 0)
    /\ UNCHANGED <<envVars, irqVars, obsVars, opsVars, atomics, channel_hwaddr, channel_area, trig, reads>>

\* the handshake without the liveness check
ConnectHandshake_Skip ==
    /\ pc.at = "handshake"
    /\ pc' = Pc("query", 0, 0, 0)
    /\ last' = Last("connect_handshake", 0, 0)
    /\ UNCHANGED <<envVars, irqVars, obsVars, opsVars, connectVars>>

\* if (!readl(arb_sema + STA_OFFSET)) return -ENODEV;
ConnectHandshake ==
    /\ pc.at = "handshake"
    /\ IF sta # 0
         THEN /\ pc' = Pc("query", 0, 0, 0)
              /\ ret' = ret
         ELSE /\ pc' = Pc("failed", 0, 0, 0)
              /\ ret' = <<ConnectErr("liveness")>>
    /\ last' = Last("connect_handshake", 0, 0)
    /\ UNCHANGED <<envVars, irqVars, obsVars, opsVars, atomics, arb_sema, channel_hwaddr, channel_area, trig, reads>>

\* the trigger word bpmp_channel_area writes for a channel
TriggerWord(ch) == BitOr(Shl(ch, TRIGGER_ID_SHIFT), TRIGGER_CMD_GET)

\* the first loop querying every channel and failing only after the last
ConnectQuery_Late ==
    /\ pc.at = "query"
    /\ LET i == pc.i
           a == result[i]
           hw == [channel_hwaddr EXCEPT ![i] = a]
       IN  /\ trig' = Append(trig, TriggerWord(i))
           /\ reads' = Append(reads, i)
           /\ channel_hwaddr' = hw
           /\ IF i + 1 < NR_CHANNELS
                THEN /\ pc' = Pc("query", 0, 0, i + 1)
                     /\ ret' = ret
                ELSE IF \E c \in Channels : hw[c] = 0
                       THEN /\ pc' = Pc("failed", 0, 0, i)
                            /\ ret' = <<ConnectErr("address")>>
                       ELSE /\ pc' = Pc("ioremap", 0, 0, 0)
                            /\ ret' = ret
           /\ last' = Last("connect_query", i, 0)
    /\ UNCHANGED <<envVars, irqVars, obsVars, opsVars, atomics, arb_sema, channel_area>>

\* the first loop mapping each channel as soon as its address is known
ConnectQuery_Mapping ==
    /\ pc.at = "query"
    /\ LET i == pc.i
           a == result[i]
       IN  /\ trig' = Append(trig, TriggerWord(i))
           /\ reads' = Append(reads, i)
           /\ channel_hwaddr' = [channel_hwaddr EXCEPT ![i] = a]
           /\ channel_area' = [channel_area EXCEPT ![i] = a]
           /\ IF a = 0
                THEN /\ pc' = Pc("failed", 0, 0, i)
                     /\ ret' = <<ConnectErr("address")>>
                ELSE /\ pc' = IF i + 1 < NR_CHANNELS
                                THEN Pc("query", 0, 0, i + 1)
                                ELSE Pc("ioremap", 0, 0, 0)
                     /\ ret' = ret
           /\ last' = Last("connect_query", i, 0)
    /\ UNCHANGED <<envVars, irqVars, obsVars, opsVars, atomics, arb_sema>>

\* one iteration of the first loop:
\* channel_hwaddr[i] = bpmp_channel_area(atomics, i); if (!channel_hwaddr[i]) return -EFAULT;
ConnectQuery ==
    /\ pc.at = "query"
    /\ LET i == pc.i
           a == result[i]
       IN  /\ trig' = Append(trig, TriggerWord(i))
           /\ reads' = Append(reads, i)
           /\ channel_hwaddr' = [channel_hwaddr EXCEPT ![i] = a]
           /\ IF a = 0
                THEN /\ pc' = Pc("failed", 0, 0, i)
                     /\ ret' = <<ConnectErr("address")>>
                ELSE /\ pc' = IF i + 1 < NR_CHANNELS
                                THEN Pc("query", 0, 0, i + 1)
                                ELSE Pc("ioremap", 0, 0, 0)
                     /\ ret' = ret
           /\ last' = Last("connect_query", i, 0)
    /\ UNCHANGED <<envVars, irqVars, obsVars, opsVars, atomics, arb_sema, channel_area>>

\* one iteration of the second loop, and return 0 after the last:
\* p = ioremap(channel_hwaddr[i], 0x80); channel_area[i].ib = p; channel_area[i].ob = p;
\* (ioremap is taken to succeed: the mapping is named by the physical address)
ConnectIoremap ==
    /\ pc.at = "ioremap"
    /\ LET i == pc.i
       IN  /\ channel_area' = [channel_area EXCEPT ![i] = channel_hwaddr[i]]
           /\ IF i + 1 < NR_CHANNELS
                THEN /\ pc' = Pc("ioremap", 0, 0, i + 1)
                     /\ ret' = ret
                ELSE /\ pc' = Pc("idle", 0, 0, 0)
                     /\ ret' = <<0>>
           /\ last' = Last("connect_ioremap", i, 0)
    /\ UNCHANGED <<envVars, irqVars, obsVars, opsVars, atomics, arb_sema, channel_hwaddr, trig, reads>>

(***************************************************************************)
(* The mailbox operations, available once bpmp_connect has returned 0.     *)
(***************************************************************************)
Connected == pc.at \in {"idle", "ack_set", "ack_clr", "ring"}

\* a further call or peer write on channel ch: the core thread and the peer
\* work the channels of the thread's CPU, within the behaviour's bounds
Within(ch) ==
    /\ ops < lim.ops
    /\ ch \in CpuChannels(cpu)
    /\ ch \in touched \/ Cardinality(touched) < lim.touched

Count(ch) ==
    /\ ops' = ops + 1
    /\ touched' = touched \cup {ch}

\* the observer of one cycle on one channel: stage 1 after an issue from
\* MA_FREE, 2 once the peer has written the token, 3 once the core has
\* written the ACKED pattern, 4 after the free; any other write to the
\* channel's token abandons the cycle (stage 0)
CycStep(kind, ch, c, w) ==
    IF c.stage < 0 THEN c
    ELSE IF c.stage = 0
      THEN IF kind = "issue" /\ bpmp_master_free(w, ch)
             THEN [ch |-> ch, stage |-> 1]
             ELSE c
    ELSE IF ch # c.ch \/ kind = "none" THEN c
    ELSE IF c.stage \in {1, 2} /\ kind = "peer" THEN [ch |-> ch, stage |-> 2]
    ELSE IF c.stage = 2 /\ kind = "ack" THEN [ch |-> ch, stage |-> 3]
    ELSE IF c.stage = 3 /\ kind = "ackclr" THEN c
    ELSE IF c.stage = 3 /\ kind = "free" THEN [ch |-> ch, stage |-> 4]
    ELSE NoCycle

\* bpmp_signal_slave refusing, with a warning, a channel that is not MA_FREE
SignalSlave_Checked(ch) ==
    /\ pc.at = "idle"
    /\ Within(ch)
    /\ Count(ch)
    /\ IF bpmp_master_free(sta, ch)
         THEN /\ sta' = WriteClr(sta, SignalSlaveClr(ch))
              /\ only' = OnlyClr(only, ch, SignalSlaveClr(ch))
              /\ warned' = warned
         ELSE /\ warned' = TRUE
              /\ UNCHANGED <<sta, only>>
    /\ last' = Last("signal_slave", ch, Token(sta, ch))
    /\ cyc' = CycStep("issue", ch, cyc, sta)
    /\ hist' = HistDone(hist, "signal_slave", ch, 0, sta')
    /\ UNCHANGED <<envVars, irqVars, connectVars, mem, doorbell, pc>>

\* bpmp_signal_slave
SignalSlave(ch) ==
    /\ pc.at = "idle"
    /\ Within(ch)
    /\ Count(ch)
    /\ sta' = WriteClr(sta, SignalSlaveClr(ch))
    /\ last' = Last("signal_slave", ch, Token(sta, ch))
    /\ cyc' = CycStep("issue", ch, cyc, sta)
    /\ only' = OnlyClr(only, ch, SignalSlaveClr(ch))
    /\ hist' = HistDone(hist, "signal_slave", ch, 0, sta')
    /\ UNCHANGED <<envVars, irqVars, connectVars, mem, doorbell, warned, pc>>

\* bpmp_free_master writing the FREE pattern to SET
FreeMaster_Set(ch) ==
    /\ pc.at = "idle"
    /\ Within(ch)
    /\ Count(ch)
    /\ sta' = WriteSet(sta, MA_FREE(ch))
    /\ last' = Last("free_master", ch, Token(sta, ch))
    /\ cyc' = CycStep("free", ch, cyc, sta)
    /\ only' = OnlySet(only, ch, MA_FREE(ch))
    /\ hist' = HistDone(hist, "free_master", ch, 0, sta')
    /\ UNCHANGED <<envVars, irqVars, connectVars, mem, doorbell, warned, pc>>

\* bpmp_free_master
FreeMaster(ch) ==
    /\ pc.at = "idle"
    /\ Within(ch)
    /\ Count(ch)
    /\ sta' = WriteClr(sta, FreeMasterClr(ch))
    /\ last' = Last("free_master", ch, Token(sta, ch))
    /\ cyc' = CycStep("free", ch, cyc, sta)
    /\ only' = OnlyClr(only, ch, FreeMasterClr(ch))
    /\ hist' = HistDone(hist, "free_master", ch, 0, sta')
    /\ UNCHANGED <<envVars, irqVars, connectVars, mem, doorbell, warned, pc>>

\* bpmp_return_data writing the channel area only on a token SL_SIGL
ReturnData_Owned(ch, code, data, sz) ==
    /\ pc.at = "idle"
    /\ Within(ch)
    /\ Count(ch)
    /\ IF TooBig(sz)
         THEN /\ warned' = TRUE
              /\ last' = Last("return_data_warn", ch, Token(sta, ch))
              /\ UNCHANGED <<mem, pc>>
         ELSE LET p == channel_area[ch]
              IN  /\ mem' = IF bpmp_slave_signalled(sta, ch)
                              THEN [mem EXCEPT ![p] = [code |-> code,
                                                       flags |-> @.flags,
                                                       data |-> memcpy(@.data, data, sz)]]
                              ELSE mem
                  /\ pc' = Pc("ack_set", ch, mem[p].flags, 0)
                  /\ last' = Last("return_data", ch, Token(sta, ch))
                  /\ warned' = warned
    /\ cyc' = CycStep("none", ch, cyc, sta)
    /\ UNCHANGED <<envVars, irqVars, obsVars, connectVars, sta, doorbell>>

\* bpmp_return_data up to the call of bpmp_ack_master: the size check, the
\* write of code and payload, the read of the flags
ReturnData(ch, code, data, sz) ==
    /\ pc.at = "idle"
    /\ Within(ch)
    /\ Count(ch)
    /\ IF TooBig(sz)
         THEN /\ warned' = TRUE
              /\ last' = Last("return_data_warn", ch, Token(sta, ch))
              /\ UNCHANGED <<mem, pc>>
         ELSE LET p == channel_area[ch]
              IN  /\ mem' = [mem EXCEPT ![p] = [code |-> code,
                                                flags |-> @.flags,
                                                data |-> memcpy(@.data, data, sz)]]
                  /\ pc' = Pc("ack_set", ch, mem[p].flags, 0)
                  /\ last' = Last("return_data", ch, Token(sta, ch))
                  /\ warned' = warned
    /\ cyc' = CycStep("none", ch, cyc, sta)
    /\ UNCHANGED <<envVars, irqVars, obsVars, connectVars, sta, doorbell>>

\* bpmp_ack_master, the write to SET and the test of DO_ACK
AckSet ==
    /\ pc.at = "ack_set"
    /\ sta' = WriteSet(sta, AckMasterSet(pc.ch))
    /\ pc' = IF BitAnd(pc.flags, DO_ACK) # 0
               THEN Pc("ring", pc.ch, pc.flags, 0)
               ELSE Pc("ack_clr", pc.ch, pc.flags, 0)
    /\ last' = Last("ack_set", pc.ch, Token(sta, pc.ch))
    /\ cyc' = CycStep("ack", pc.ch, cyc, sta)
    /\ only' = OnlySet(only, pc.ch, AckMasterSet(pc.ch))
    /\ hist' = IF BitAnd(pc.flags, DO_ACK) # 0
                 THEN HistDone(hist, "ack_master", pc.ch, pc.flags, sta')
                 ELSE hist
    /\ UNCHANGED <<envVars, irqVars, connectVars, mem, doorbell, warned, ops, touched>>

\* bpmp_ack_master, the write to CLR when DO_ACK is clear
AckClr ==
    /\ pc.at = "ack_clr"
    /\ sta' = WriteClr(sta, AckMasterClr(pc.ch))
    /\ pc' = Pc("ring", pc.ch, pc.flags, 0)
    /\ last' = Last("ack_clr", pc.ch, Token(sta, pc.ch))
    /\ cyc' = CycStep("ackclr", pc.ch, cyc, sta)
    /\ only' = OnlyClr(only, pc.ch, AckMasterClr(pc.ch))
    /\ hist' = HistDone(hist, "ack_master", pc.ch, pc.flags, sta')
    /\ UNCHANGED <<envVars, irqVars, connectVars, mem, doorbell, warned, ops, touched>>

\* the end of bpmp_return_data ringing whatever the flags are
RingDoorbell_Always ==
    /\ pc.at = "ring"
    /\ doorbell' = Append(doorbell, CPU_OB_DOORBELL)
    /\ pc' = Pc("idle", 0, 0, 0)
    /\ last' = Last("return_data_end", pc.ch, Token(sta, pc.ch))
    /\ UNCHANGED <<envVars, irqVars, obsVars, connectVars, sta, mem, warned, ops, touched, cyc>>

\* the end of bpmp_return_data: if (flags & RING_DOORBELL) bpmp_ring_doorbell(ch);
RingDoorbell ==
    /\ pc.at = "ring"
    /\ doorbell' = IF BitAnd(pc.flags, RING_DOORBELL) # 0
                     THEN Append(doorbell, CPU_OB_DOORBELL)
                     ELSE doorbell
    /\ pc' = Pc("idle", 0, 0, 0)
    /\ last' = Last("return_data_end", pc.ch, Token(sta, pc.ch))
    /\ UNCHANGED <<envVars, irqVars, obsVars, connectVars, sta, mem, warned, ops, touched, cyc>>

(***************************************************************************)
(* The peer: a write of some of a channel's two bits to SET or to CLR.     *)
(***************************************************************************)
PeerSet(ch, b) ==
    /\ Connected
    /\ Within(ch)
    /\ Count(ch)
    /\ sta' = WriteSet(sta, Shl(b, ch * 2))
    /\ last' = Last("peer_set", ch, Token(sta, ch))
    /\ cyc' = CycStep("peer", ch, cyc, sta)
    /\ only' = [only EXCEPT ![ch] = SetTok(@, b)]
    /\ hist' = HistReset(hist)
    /\ UNCHANGED <<envVars, irqVars, connectVars, mem, doorbell, warned, pc>>

PeerClr(ch, b) ==
    /\ Connected
    /\ Within(ch)
    /\ Count(ch)
    /\ sta' = WriteClr(sta, Shl(b, ch * 2))
    /\ last' = Last("peer_clr", ch, Token(sta, ch))
    /\ cyc' = CycStep("peer", ch, cyc, sta)
    /\ only' = [only EXCEPT ![ch] = ClrTok(@, b)]
    /\ hist' = HistReset(hist)
    /\ UNCHANGED <<envVars, irqVars, connectVars, mem, doorbell, warned, pc>>

\* the next CPU making, on one of its own channels (the neighbours in the
\* status word of this CPU's channels), a register write of the same
\* transitions: the SET of bpmp_ack_master
OtherCpuSet(ch) ==
    /\ Connected
    /\ ops < lim.ops
    /\ ch \in CpuChannels((cpu + 1) % NR_CPUS)
    /\ ch \in touched \/ Cardinality(touched) < lim.touched
    /\ Count(ch)
    /\ sta' = WriteSet(sta, AckMasterSet(ch))
    /\ last' = Last("other_set", ch, Token(sta, ch))
    /\ only' = OnlySet(only, ch, AckMasterSet(ch))
    /\ hist' = HistReset(hist)
    /\ UNCHANGED <<envVars, irqVars, connectVars, mem, doorbell, warned, pc, cyc>>

\* the CLR of bpmp_signal_slave (both bits), or of bpmp_free_master and
\* bpmp_ack_master (one bit)
OtherCpuClr(ch, both) ==
    /\ Connected
    /\ ops < lim.ops
    /\ ch \in CpuChannels((cpu + 1) % NR_CPUS)
    /\ ch \in touched \/ Cardinality(touched) < lim.touched
    /\ Count(ch)
    /\ LET v == IF both THEN SignalSlaveClr(ch) ELSE FreeMasterClr(ch)
       IN  /\ sta' = WriteClr(sta, v)
           /\ only' = OnlyClr(only, ch, v)
    /\ last' = Last("other_clr", ch, Token(sta, ch))
    /\ hist' = HistReset(hist)
    /\ UNCHANGED <<envVars, irqVars, connectVars, mem, doorbell, warned, pc, cyc>>

(***************************************************************************)
(* bpmp_init_irq and the inbound doorbells.  The doorbell driver           *)
(* (tegra_register_doorbell_handler, the dispatch of a doorbell interrupt) *)
(* is the capability the transport is handed: a registration that succeeds *)
(* adds the handler with its context to the doorbell's entry, one that     *)
(* fails adds nothing, and a doorbell that fires calls the handlers of its *)
(* entry with their context.                                               *)
(***************************************************************************)
allVars == <<cpu, of_node, result, sta, mem, atomics, arb_sema, channel_hwaddr,
             channel_area, trig, reads, ret, doorbell, warned, pc, lim, ops,
             touched, last, cyc, only, hist>>

\* the values tegra_register_doorbell_handler may return: 0, or an error
RegisterResults == {0, 0 - 16, 0 - 22}

Handler(fn, data) == [fn |-> fn, data |-> data]

tegra_register_doorbell_handler(tab, i, fn, data, r) ==
    IF r = 0 THEN [tab EXCEPT ![i] = Append(@, Handler(fn, data))] ELSE tab

\* bpmp_doorbell_handler: the channel it passes to bpmp_handle_irq,
\* int ch = (long)data (the contexts registered are 8..11)
bpmp_doorbell_handler(data) == data

\* the loop of bpmp_init_irq going on after a registration failed
InitIrq_Continue(r) ==
    /\ irq_pc.at = "register"
    /\ LET i == irq_pc.i
           ch == PER_CPU_IB_CH(i)
       IN  /\ attempted' = Append(attempted, [db |-> i, r |-> r])
           /\ registered' = tegra_register_doorbell_handler(
                                registered, i, "bpmp_doorbell_handler", ch, r)
           /\ IF i + 1 < NR_CPUS
                THEN /\ irq_pc' = IrqPc("register", i + 1)
                     /\ irq_ret' = irq_ret
                ELSE /\ irq_pc' = IrqPc(IF r # 0 THEN "failed" ELSE "done", i)
                     /\ irq_ret' = <<r>>
    /\ UNCHANGED <<allVars, handled, call>>

\* one iteration of the loop of bpmp_init_irq, and return 0 after the last:
\* ch = PER_CPU_IB_CH(i); r = tegra_register_doorbell_handler(i, ...); if (r) return r;
InitIrq(r) ==
    /\ irq_pc.at = "register"
    /\ LET i == irq_pc.i
           ch == PER_CPU_IB_CH(i)
       IN  /\ attempted' = Append(attempted, [db |-> i, r |-> r])
           /\ registered' = tegra_register_doorbell_handler(
                                registered, i, "bpmp_doorbell_handler", ch, r)
           /\ IF r # 0
                THEN /\ irq_pc' = IrqPc("failed", i)
                     /\ irq_ret' = <<r>>
                ELSE IF i + 1 < NR_CPUS
                       THEN /\ irq_pc' = IrqPc("register", i + 1)
                            /\ irq_ret' = irq_ret
                       ELSE /\ irq_pc' = IrqPc("done", i)
                            /\ irq_ret' = <<0>>
    /\ UNCHANGED <<allVars, handled, call>>

RECURSIVE Dispatch(_, _)
Dispatch(i, hs) ==
    IF hs = <<>> THEN <<>>
    ELSE <<[db |-> i, ch |-> bpmp_doorbell_handler(Head(hs).data)]>> \o Dispatch(i, Tail(hs))

\* doorbell i fires: each handler of its entry runs and calls bpmp_handle_irq
FireDoorbell(i) ==
    /\ registered[i] # <<>>
    /\ Len(handled) < MaxIrq
    /\ handled' = handled \o Dispatch(i, registered[i])
    /\ UNCHANGED <<allVars, irq_pc, irq_ret, registered, attempted, call>>

(***************************************************************************)
(* The channel index functions of t210_mail_ops.                           *)
(***************************************************************************)
ObChannel ==
    /\ call' = Call("ob_channel", cpu, bpmp_ob_channel(cpu))
    /\ UNCHANGED <<allVars, irq_pc, irq_ret, registered, attempted, handled>>

ThreadCh(idx) ==
    /\ call' = Call("thread_ch", idx, bpmp_thread_ch(idx))
    /\ UNCHANGED <<allVars, irq_pc, irq_ret, registered, attempted, handled>>

ThreadChIndex(ch) ==
    /\ call' = Call("thread_ch_index", ch, bpmp_thread_ch_index(ch))
    /\ UNCHANGED <<allVars, irq_pc, irq_ret, registered, attempted, handled>>

Next ==
    \/ ConnectAtomics
    \/ ConnectArbSema
    \/ ConnectHandshake
    \/ ConnectQuery
    \/ ConnectIoremap
    \/ \E ch \in Channels : SignalSlave(ch)
    \/ \E ch \in Channels : FreeMaster(ch)
    \/ \E ch \in Channels, code \in Codes, sz \in Sizes : ReturnData(ch, code, Payload, sz)
    \/ AckSet
    \/ AckClr
    \/ RingDoorbell
    \/ \E ch \in Channels, b \in 1 .. 3 : PeerSet(ch, b)
    \/ \E ch \in Channels, b \in 1 .. 3 : PeerClr(ch, b)

Spec == Init /\ [][Next]_vars

SpecCycle == InitCycle /\ [][Next]_vars

\* status words for a connection in use: the tokens of the channels run
\* through the four values upwards, downwards, or are all the same
Words == {WordOf([ch \in Channels |-> (ch * k + r) % 4], NR_CHANNELS) :
              k \in {0, 1, 3}, r \in 0 .. 3}

\* the state bpmp_connect leaves when it returns 0
ConnectDone ==
    /\ of_node = [win0 |-> TRUE, win1 |-> TRUE]
    /\ result = ResultTable({})
    /\ atomics = TRUE
    /\ arb_sema = TRUE
    /\ channel_hwaddr = [ch \in Channels |-> ChAddr(ch)]
    /\ channel_area = [ch \in Channels |-> ChAddr(ch)]
    /\ trig = [j \in 1 .. NR_CHANNELS |-> TriggerWord(j - 1)]
    /\ reads = [j \in 1 .. NR_CHANNELS |-> j - 1]
    /\ ret = <<0>>
    /\ pc = Pc("idle", 0, 0, 0)
    /\ last = Last("connect_ioremap", NR_CHANNELS - 1, 0)

\* a connection in use, on any of the status words
InitWords ==
    /\ cpu \in 0 .. (NR_CPUS - 1)
    /\ ConnectDone
    /\ sta \in Words
    /\ \E ft \in FlagTables :
          mem = [a \in {ChAddr(ch) : ch \in CpuChannels(cpu)} |->
                    [code |-> 0,
                     flags |-> ft[CHOOSE ch \in Channels : ChAddr(ch) = a],
                     data |-> ZeroData]]
    /\ doorbell = <<>>
    /\ warned = FALSE
    /\ ops = 0
    /\ touched = {}
    /\ irq_pc = IrqPc("register", 0)
    /\ irq_ret = <<>>
    /\ registered = [i \in 0 .. (NR_CPUS - 1) |-> <<>>]
    /\ attempted = <<>>
    /\ handled = <<>>
    /\ call = Call("none", 0, 0)
    /\ only = [ch \in Channels |-> Token(sta, ch)]
    /\ lim = Lim(WordOps, 2)
    /\ cyc = Unobserved
    /\ hist = <<>>

NextWords ==
    \/ \E ch \in Channels : SignalSlave(ch)
    \/ \E ch \in Channels : FreeMaster(ch)
    \/ \E ch \in Channels, code \in Codes : ReturnData(ch, code, Payload, MSG_DATA_MIN_SZ)
    \/ AckSet
    \/ AckClr
    \/ RingDoorbell
    \/ \E ch \in Channels, b \in 1 .. 3 : PeerSet(ch, b)
    \/ \E ch \in Channels, b \in 1 .. 3 : PeerClr(ch, b)
    \/ \E ch \in Channels : OtherCpuSet(ch)
    \/ \E ch \in Channels, both \in BOOLEAN : OtherCpuClr(ch, both)

SpecWords == InitWords /\ [][NextWords]_vars

\* the bring-up of the interrupts and the index functions, on each CPU
InitIrqs ==
    /\ Init
    /\ of_node = [win0 |-> TRUE, win1 |-> TRUE]
    /\ result = ResultTable({})
    /\ sta = AllFree
    /\ mem[ChAddr(bpmp_ob_channel(cpu))].flags = bpmp_ob_channel(cpu) % 4

NextIrqs ==
    \/ \E r \in RegisterResults : InitIrq(r)
    \/ \E i \in 0 .. (NR_CPUS - 1) : FireDoorbell(i)
    \/ ObChannel
    \/ \E idx \in 0 .. (NR_CPUS - 1) : ThreadCh(idx)
    \/ \E ch \in (0 - 1) .. NR_CHANNELS : ThreadChIndex(ch)

SpecIrqs == InitIrqs /\ [][NextIrqs]_vars

(***************************************************************************)
(* Properties.                                                             *)
(***************************************************************************)
\* the steps of the core thread inside a mail_ops call, as last names them
CoreOps == {"signal_slave", "free_master", "return_data", "return_data_warn",
            "ack_set", "ack_clr", "return_data_end"}

AllUnmapped == \A ch \in Channels : channel_area[ch] = 0

\* C1: a cycle issue (bpmp_signal_slave from MA_FREE) -> peer writes the
\* token -> acknowledge (bpmp_ack_master's set of the ACKED pattern) -> free
\* (bpmp_free_master) ends with the channel's token MA_FREE again.
C1_CycleReturnsToFree ==
    cyc.stage = 4 => bpmp_master_free(sta, cyc.ch)

C1_Witness ==
    /\ cyc.stage = 4
    /\ cyc.ch = NR_CHANNELS - 1
    /\ last = Last("free_master", cyc.ch, Token(MA_ACKD(cyc.ch), cyc.ch))
    /\ bpmp_master_free(sta, cyc.ch)

\* C2 as stated: bpmp_signal_slave on a channel whose token is MA_FREE
\* leaves the token SL_QUED (b01).
C2_Original ==
    (last.op = "signal_slave" /\ last.pre = Token(MA_FREE(last.ch), last.ch))
        => bpmp_ch_sta(sta, last.ch) = SL_QUED(last.ch)

\* C2 amended: bpmp_signal_slave on a channel whose token is MA_FREE clears
\* both token bits and leaves the token SL_SIGL (b00).
C2_SignalSlaveLeavesSignalled ==
    (last.op = "signal_slave" /\ last.pre = Token(MA_FREE(last.ch), last.ch))
        => bpmp_slave_signalled(sta, last.ch)

C2_Witness ==
    /\ last.op = "signal_slave"
    /\ last.pre = Token(MA_FREE(last.ch), last.ch)
    /\ bpmp_slave_signalled(sta, last.ch)

\* C3 as stated: during an immediate acknowledge (DO_ACK clear) the token
\* is never MA_ACKD between the start and the end of bpmp_ack_master.
C3_Original ==
    ~(pc.at = "ack_clr" /\ bpmp_master_acked(sta, pc.ch))

\* C3 amended: an immediate acknowledge takes two register writes; after
\* the first (the set) the token reads MA_ACKD, whatever it was before, and
\* after the second (the clear), made on a token still MA_ACKD, it reads
\* MA_FREE.
C3_ImmediateAckTwoWrites ==
    /\ (last.op = "ack_set" /\ BitAnd(pc.flags, DO_ACK) = 0)
          => (pc.at = "ack_clr" /\ bpmp_master_acked(sta, last.ch))
    /\ (last.op = "ack_clr" /\ last.pre = Token(MA_ACKD(last.ch), last.ch))
          => bpmp_master_free(sta, last.ch)

C3_Witness ==
    /\ last.op = "ack_clr"
    /\ last.pre = Token(MA_ACKD(last.ch), last.ch)
    /\ BitAnd(pc.flags, DO_ACK) = 0
    /\ pc.at = "ring"
    /\ bpmp_master_free(sta, last.ch)

\* C4: a deferred acknowledge (DO_ACK set) leaves the token MA_ACKD from
\* every prior token value with the one write to SET (no write to CLR
\* follows); the token then stays MA_ACKD through every step of the core on
\* another channel and through the rest of the call, and bpmp_free_master on
\* the channel moves it to MA_FREE.
C4_Step ==
    LET op == last'.op
        c == last'.ch
    IN  /\ (op = "ack_set" /\ BitAnd(pc.flags, DO_ACK) # 0)
              => (bpmp_master_acked(sta', c) /\ pc'.at = "ring")
        /\ op = "return_data_end" => sta' = sta
        /\ op \in CoreOps =>
              \A ch \in Channels \ {c} :
                  Token(sta, ch) = Token(MA_ACKD(ch), ch)
                      => Token(sta', ch) = Token(MA_ACKD(ch), ch)
        /\ (op = "free_master" /\ bpmp_master_acked(sta, c))
              => bpmp_master_free(sta', c)

C4_DeferredAck == [][C4_Step]_vars

C4_Witness ==
    \E ch \in Channels :
        /\ ch \in CpuChannels(cpu)
        /\ mem[ChAddr(ch)].code \in Codes
        /\ BitAnd(mem[ChAddr(ch)].flags, DO_ACK) # 0
        /\ bpmp_master_acked(sta, ch)
        /\ pc.at = "idle"
        /\ last.op \in {"signal_slave", "free_master"}
        /\ last.ch # ch

\* C5: bpmp_return_data with sz > MSG_DATA_MIN_SZ changes neither the
\* channel areas (code, payload), nor any token, nor the doorbell, and starts
\* no acknowledge.
C5_Step ==
    \A ch \in Channels, code \in Codes, sz \in Sizes :
        (sz > MSG_DATA_MIN_SZ /\ ReturnData(ch, code, Payload, sz))
            => (mem' = mem /\ sta' = sta /\ doorbell' = doorbell /\ pc' = pc)

C5_OversizeIsNoOp == [][C5_Step]_vars

C5_Witness ==
    /\ last.op = "return_data_warn"
    /\ warned
    /\ pc.at = "idle"
    /\ \A a \in DOMAIN mem : mem[a].code = 0 /\ mem[a].data = ZeroData

\* C6: bpmp_connect queries the channels in ascending index order, and a
\* zero address for channel k ends it with a failure: every channel queried
\* before the last one resolved, and nothing is queried after a zero.
C6_QueriesStopAtZero ==
    /\ Len(trig) = Len(reads)
    /\ \A j \in 1 .. Len(reads) :
          /\ reads[j] = j - 1
          /\ trig[j] = (j - 1) * (2 ^ TRIGGER_ID_SHIFT) + TRIGGER_CMD_GET
          /\ j < Len(reads) => result[reads[j]] # 0
    /\ (Len(reads) > 0 /\ result[reads[Len(reads)]] = 0)
          => (pc.at = "failed" /\ ret = <<0 - EFAULT>>)

C6_Witness ==
    /\ pc.at = "failed"
    /\ ret = <<0 - EFAULT>>
    /\ result[5] = 0
    /\ Len(reads) = 6
    /\ Len(trig) = 6

\* C7: bpmp_connect returns 0 only if every channel's address resolved to
\* a non-zero value, and no channel area is mapped in a connect that fails.
C7_AllOrNothing ==
    /\ ret = <<0>> => \A ch \in Channels : result[ch] # 0 /\ channel_area[ch] = result[ch]
    /\ (ret # <<>> /\ ret # <<0>>) => AllUnmapped
    /\ ~AllUnmapped => (pc.at # "failed" /\ \A ch \in Channels : channel_hwaddr[ch] # 0)

C7_Witness ==
    /\ ret = <<0 - EFAULT>>
    /\ Len(reads) = NR_CHANNELS
    /\ \A ch \in Channels : ch < NR_CHANNELS - 1 => channel_hwaddr[ch] # 0
    /\ AllUnmapped

\* C8: bpmp_connect maps the two windows, then checks liveness, then
\* queries the channels: with a window missing, or with the status word
\* all-zero at the liveness check, it fails with no trigger written and no
\* channel area mapped.
C8_PhasesInOrder ==
    /\ (~Connected /\ (~of_node.win0 \/ ~of_node.win1 \/ sta = 0))
          => /\ pc.at \in {"start", "arb_sema", "handshake", "failed"}
             /\ trig = <<>>
             /\ reads = <<>>
             /\ AllUnmapped
             /\ ret \in {<<>>, <<0 - ENODEV>>}
    /\ pc.at \in {"query", "ioremap"} => (atomics /\ arb_sema /\ sta # 0)
    /\ arb_sema => atomics

C8_Witness ==
    /\ of_node.win0
    /\ of_node.win1
    /\ sta = 0
    /\ last.op = "connect_handshake"
    /\ pc.at = "failed"
    /\ trig = <<>>

\* the failure bpmp_connect has just returned with
FailKind ==
    CASE last.op \in {"connect_atomics", "connect_arb_sema"} -> "window"
      [] last.op = "connect_handshake" -> "liveness"
      [] OTHER -> "address"
FailKinds == {"window", "liveness", "address"}

\* C9 as stated: a missing window, an all-zero status word and a zero
\* channel address each make bpmp_connect return a value that neither of
\* the other two failures returns.
C9_Original ==
    pc.at = "failed" => \A k \in FailKinds \ {FailKind} : ret[1] # ConnectErr(k)

\* C9 amended: a zero channel address makes bpmp_connect return -EFAULT,
\* which neither of the other two failures returns; a missing window and an
\* all-zero status word both return -ENODEV.
C9_AddressFailureDistinct ==
    pc.at = "failed" =>
        /\ FailKind = "address" =>
              (ret = <<0 - EFAULT>> /\ \A k \in {"window", "liveness"} : ret[1] # ConnectErr(k))
        /\ FailKind \in {"window", "liveness"} =>
              (ret = <<0 - ENODEV>> /\ ret[1] # ConnectErr("address"))

C9_Witness ==
    /\ pc.at = "failed"
    /\ FailKind = "address"
    /\ ret = <<0 - EFAULT>>
    /\ of_node.win0 /\ of_node.win1 /\ sta # 0

\* the status word with every bit outside the channel's two cleared / set
OnlySlice(w, ch) == Shl(Token(w, ch), ch * 2)
OthersSet(w, ch) == OnlySlice(w, ch) + ((2 ^ (NR_CHANNELS * 2)) - 1 - Shl(3, ch * 2))

\* C10: a channel's slice of the status word matches exactly one of SL_SIGL,
\* SL_QUED, MA_FREE, MA_ACKD; at most one of master_free, slave_signalled,
\* master_acked holds; and each of them gives the same result on any status
\* word with the same two bits for that channel.
C10_DecodeExclusive ==
    \A ch \in Channels :
        LET s == bpmp_ch_sta(sta, ch)
            pats == <<SL_SIGL(ch), SL_QUED(ch), MA_FREE(ch), MA_ACKD(ch)>>
            free == bpmp_master_free(sta, ch)
            sigl == bpmp_slave_signalled(sta, ch)
            ackd == bpmp_master_acked(sta, ch)
        IN  /\ Cardinality({k \in 1 .. 4 : s = pats[k]}) = 1
            /\ Cardinality({k \in 1 .. 3 : <<free, sigl, ackd>>[k]}) <= 1
            /\ \A w \in {OnlySlice(sta, ch), OthersSet(sta, ch)} :
                  /\ bpmp_master_free(w, ch) = free
                  /\ bpmp_slave_signalled(w, ch) = sigl
                  /\ bpmp_master_acked(w, ch) = ackd

C10_Witness ==
    /\ ops > 0
    /\ \E a, b, c, d \in Channels :
          /\ bpmp_slave_signalled(sta, a)
          /\ bpmp_ch_sta(sta, b) = SL_QUED(b)
          /\ bpmp_master_free(sta, c)
          /\ bpmp_master_acked(sta, d)
          /\ last.ch \in {a, b, c, d}

\* C11: once bpmp_init_irq has returned 0, doorbell i of each CPU i in 0..3
\* has exactly one handler, bpmp_doorbell_handler, with context 8 + i; no
\* doorbell ever has more than one handler; and every call of bpmp_handle_irq
\* made for doorbell i passes channel 8 + i, one call per interrupt.
C11_HandlerPerCpu ==
    /\ irq_ret = <<0>> =>
          \A i \in 0 .. (NR_CPUS - 1) :
              registered[i] = <<Handler("bpmp_doorbell_handler", CPU0_IB_CH + i)>>
    /\ \A i \in 0 .. (NR_CPUS - 1) : Len(registered[i]) <= 1
    /\ \A k \in 1 .. Len(handled) : handled[k].ch = CPU0_IB_CH + handled[k].db
    /\ Len(handled) <= MaxIrq

C11_Witness ==
    /\ irq_ret = <<0>>
    /\ Len(handled) = 2
    /\ handled[1] = [db |-> NR_CPUS - 1, ch |-> NR_CHANNELS - 1]
    /\ handled[2] = [db |-> 0, ch |-> CPU0_IB_CH]

\* C12: bpmp_init_irq asks for the doorbells in the order 0, 1, 2, 3; when
\* the registration for CPU k fails it returns that registration's result at
\* once, with no request made for a CPU above k; and it returns 0 only after
\* four registrations that all succeeded.
C12_RegistrationFailFast ==
    /\ \A j \in 1 .. Len(attempted) :
          /\ attempted[j].db = j - 1
          /\ j < Len(attempted) => attempted[j].r = 0
    /\ (Len(attempted) > 0 /\ attempted[Len(attempted)].r # 0) =>
          /\ irq_pc.at = "failed"
          /\ irq_ret = <<attempted[Len(attempted)].r>>
          /\ \A i \in 0 .. (NR_CPUS - 1) : i >= irq_pc.i => registered[i] = <<>>
    /\ irq_ret = <<0>> =>
          /\ Len(attempted) = NR_CPUS
          /\ \A j \in 1 .. NR_CPUS : attempted[j].r = 0
    /\ irq_ret # <<>> => irq_pc.at \in {"failed", "done"}

C12_Witness ==
    /\ irq_pc = IrqPc("failed", 2)
    /\ irq_ret = <<0 - 16>>
    /\ Len(attempted) = 3
    /\ registered[1] # <<>>
    /\ registered[3] = <<>>

\* the token values that §4.2 of the design gives to the peer: SLAVE_SIGNALLED
\* (peer-owned) and SLAVE_QUEUED (the peer must service it)
PeerOwned == {Token(SL_SIGL(0), 0), Token(SL_QUED(0), 0)}

\* C13 as stated: bpmp_return_data writes the code and the payload of a
\* channel only while the channel's token gives the core the ownership.
C13_Original ==
    last.op = "return_data" => last.pre \notin PeerOwned

\* C13 amended: bpmp_return_data does not look at the token: with a size
\* within the capacity it writes the code and the payload to the channel's
\* area whatever the token is, leaves the token as it was, and goes on to
\* the acknowledge.
C13_ReturnDataIgnoresToken ==
    last.op = "return_data" =>
        /\ mem[ChAddr(last.ch)].code \in Codes
        /\ mem[ChAddr(last.ch)].data = memcpy(ZeroData, Payload, MSG_DATA_MIN_SZ)
        /\ Token(sta, last.ch) = last.pre
        /\ pc.at = "ack_set"
        /\ pc.ch = last.ch

C13_Witness ==
    /\ last.op = "return_data"
    /\ last.pre = Token(SL_QUED(0), 0)
    /\ bpmp_ch_sta(sta, last.ch) = SL_QUED(last.ch)
    /\ mem[ChAddr(last.ch)].code \in Codes
    /\ mem[ChAddr(last.ch)].data[MSG_DATA_MIN_SZ] = Payload[MSG_DATA_MIN_SZ]

\* bpmp_connect returning 0 leaves the state ConnectDone
ConnectLeavesDone == (pc.at = "idle" /\ ops = 0) => ConnectDone

\* the steps of the core that write a register
CoreWrites == {"signal_slave", "free_master", "ack_set", "ack_clr"}

\* C14: every step of the core on a channel ch (the write of
\* bpmp_signal_slave, of bpmp_free_master, each write of bpmp_ack_master with
\* DO_ACK set or clear, and every step of bpmp_return_data) leaves the token
\* of every channel other than ch as it was.
C14_Step ==
    last'.op \in CoreOps =>
        \A ch \in Channels \ {last'.ch} : Token(sta', ch) = Token(sta, ch)

C14_OtherTokensKept == [][C14_Step]_vars

C14_Witness ==
    /\ last.op = "ack_clr"
    /\ last.ch = 5
    /\ BitAnd(pc.flags, DO_ACK) = 0
    /\ bpmp_master_free(sta, 5)
    /\ bpmp_master_acked(sta, 4)
    /\ bpmp_ch_sta(sta, 6) = SL_QUED(6)

\* C15: the only step of the core that turns a bit of the status word from
\* 0 to 1 is the SET write of bpmp_ack_master; bpmp_signal_slave,
\* bpmp_free_master and the CLR write of bpmp_ack_master turn bits from 1 to
\* 0 only, and the other steps of the core leave the word alone.
C15_Step ==
    /\ (last'.op \in CoreOps /\ BitClear(sta', sta) # 0) => last'.op = "ack_set"
    /\ last'.op \in (CoreWrites \ {"ack_set"}) => BitClear(sta', sta) = 0
    /\ last'.op = "ack_set" => BitClear(sta, sta') = 0
    /\ last'.op \in (CoreOps \ CoreWrites) => sta' = sta

C15_OnlyAckSets == [][C15_Step]_vars

C15_Witness ==
    /\ last.op = "ack_set"
    /\ last.pre = Token(SL_SIGL(last.ch), last.ch)
    /\ bpmp_master_acked(sta, last.ch)
    /\ only[last.ch] = Token(MA_ACKD(last.ch), last.ch)

\* C16 as stated: bpmp_signal_slave on a channel that is not MA_FREE, and
\* bpmp_free_master on a channel that is not MA_ACKD, report an error and
\* leave the token as it was.
C16_Original ==
    /\ (last.op = "signal_slave" /\ last.pre # Token(MA_FREE(last.ch), last.ch))
          => (warned /\ Token(sta, last.ch) = last.pre)
    /\ (last.op = "free_master" /\ last.pre # Token(MA_ACKD(last.ch), last.ch))
          => (warned /\ Token(sta, last.ch) = last.pre)

\* C16 amended: bpmp_signal_slave and bpmp_free_master make their write
\* whatever the token is and report nothing: after bpmp_signal_slave the
\* token is SL_SIGL, after bpmp_free_master it is the token before with its
\* low bit cleared (SL_QUED becomes SL_SIGL, MA_ACKD becomes MA_FREE), no
\* warning is raised and the core is ready for the next call.
C16_SilentlyPerformed ==
    /\ last.op = "signal_slave" =>
          (bpmp_slave_signalled(sta, last.ch) /\ ~warned /\ pc.at = "idle")
    /\ last.op = "free_master" =>
          /\ Token(sta, last.ch) = last.pre - (last.pre % 2)
          /\ ~warned
          /\ pc.at = "idle"

C16_Witness ==
    /\ last.op = "free_master"
    /\ last.pre = Token(SL_QUED(last.ch), last.ch)
    /\ bpmp_slave_signalled(sta, last.ch)
    /\ ~warned

\* C17: bpmp_signal_slave, bpmp_free_master, and bpmp_ack_master with the
\* same flags, applied to a channel twice in a row with no other write in
\* between, leave the same status word the second time as the first.
C17_Idempotent ==
    (/\ Len(hist) = 2
     /\ hist[1].op = hist[2].op
     /\ hist[1].ch = hist[2].ch
     /\ hist[1].flags = hist[2].flags)
        => hist[1].sta = hist[2].sta

C17_Witness ==
    /\ Len(hist) = 2
    /\ hist[1].op = "ack_master"
    /\ hist[2] = hist[1]
    /\ BitAnd(hist[1].flags, DO_ACK) = 0
    /\ last = Last("ack_clr", hist[1].ch, Token(MA_ACKD(0), 0))
    /\ sta = hist[2].sta

\* C18: whatever the interleaving of the register writes of the core on
\* its channels with the writes of the peer and of another CPU on other
\* channels, the token of every channel is the one that the writes made for
\* that channel alone give it, in their order: no write loses or disturbs an
\* update of another channel.
C18_NoLostUpdate ==
    \A ch \in Channels : Token(sta, ch) = only[ch]

C18_Witness ==
    /\ pc.at = "ack_clr"
    /\ last.op \in {"other_set", "other_clr", "peer_set", "peer_clr"}
    /\ last.ch # pc.ch
    /\ Token(sta, last.ch) # last.pre
    /\ bpmp_master_acked(sta, pc.ch)
    /\ touched = {pc.ch, last.ch}

\* C19: in a call of bpmp_return_data with a size within the capacity, the
\* code and the payload are in the channel area before the first token
\* write; the acknowledge goes by the flags of the channel's header (the SET
\* write, then the CLR write only when DO_ACK is clear); no step before the
\* end of the call rings; and the end of the call, after the token writes,
\* rings CPU_OB_DOORBELL once when RING_DOORBELL is set in those flags and
\* not at all otherwise.
C19_Step ==
    LET op == last'.op
        area == mem'[ChAddr(last'.ch)]
    IN  /\ op = "return_data" =>
              /\ sta' = sta
              /\ doorbell' = doorbell
              /\ area.code \in Codes
              /\ area.data = memcpy(mem[ChAddr(last'.ch)].data, Payload, MSG_DATA_MIN_SZ)
              /\ pc' = Pc("ack_set", last'.ch, mem[ChAddr(last'.ch)].flags, 0)
        /\ op = "ack_set" =>
              /\ pc.at = "ack_set"
              /\ pc.flags = area.flags
              /\ area.code \in Codes
              /\ mem' = mem
              /\ doorbell' = doorbell
              /\ pc'.at = IF pc.flags \in {DO_ACK, DO_ACK + RING_DOORBELL}
                             THEN "ring" ELSE "ack_clr"
        /\ op = "ack_clr" =>
              /\ pc.flags \in {0, RING_DOORBELL}
              /\ mem' = mem
              /\ doorbell' = doorbell
              /\ pc'.at = "ring"
        /\ op = "return_data_end" =>
              /\ pc.at = "ring"
              /\ sta' = sta
              /\ mem' = mem
              /\ doorbell' = IF pc.flags \in {RING_DOORBELL, DO_ACK + RING_DOORBELL}
                                THEN doorbell \o <<CPU_OB_DOORBELL>>
                                ELSE doorbell
              /\ pc'.at = "idle"
        /\ doorbell' # doorbell => op = "return_data_end"

C19_ReturnDataOrder == [][C19_Step]_vars

C19_Witness ==
    /\ last.op = "return_data_end"
    /\ pc.at = "idle"
    /\ doorbell = <<CPU_OB_DOORBELL>>
    /\ mem[ChAddr(last.ch)].flags = RING_DOORBELL
    /\ mem[ChAddr(last.ch)].code \in Codes
    /\ bpmp_master_free(sta, last.ch)
    /\ ops = 1

\* the three ranges of the channel indices
AtomicRange == {bpmp_ob_channel(c) : c \in 0 .. (NR_CPUS - 1)}
ThreadRange == {bpmp_thread_ch(i) : i \in 0 .. (NR_CPUS - 1)}
InboundRange == {PER_CPU_IB_CH(i) : i \in 0 .. (NR_CPUS - 1)}

\* C20: the channel indices 0..11 fall into three disjoint ranges, atomic
\* outbound 0..3, deferrable outbound 4..7 and inbound 8..11; bpmp_ob_channel
\* on CPU c returns c, in the atomic range; bpmp_thread_ch_index of
\* bpmp_thread_ch(i) is i for i in 0..3; and bpmp_thread_ch_index returns -1
\* for every ch outside 4..7.
C20_IndexPartition ==
    /\ AtomicRange = 0 .. 3
    /\ ThreadRange = 4 .. 7
    /\ InboundRange = 8 .. 11
    /\ AtomicRange \cup ThreadRange \cup InboundRange = Channels
    /\ call.fn = "ob_channel" => (call.rv = cpu /\ call.rv \in 0 .. 3)
    /\ call.fn = "thread_ch" => call.rv = 4 + call.arg
    /\ call.fn = "thread_ch_index" =>
          /\ \A i \in 0 .. 3 : call.arg = bpmp_thread_ch(i) => call.rv = i
          /\ call.arg \notin 4 .. 7 => call.rv = 0 - 1

C20_Witness ==
    /\ call = Call("thread_ch_index", 4, 0)
    /\ cpu = 3

====
